---- MODULE Spec2Model ----
(***************************************************************************)
(* A model of verysimpletree's Tree (src/verysimpletree/tree.py): nodes    *)
(* with a parent back-reference, an ordered children list, the maintained  *)
(* is_leaf flag and the three lazily computed caches, under add_child,     *)
(* remove, remove_children, replace_child and the cached reads.            *)
(***************************************************************************)
EXTENDS Integers, Sequences, FiniteSets, TLC

\* ---- bounds ----
NumNodes == 3          \* Tree objects that exist
MaxOps   == 3          \* calls made on them in one run

\* ---- values ----
None    == 0                   \* Python's None
Nodes   == 1..NumNodes         \* the TestTree instances
Foreign == NumNodes + 1        \* an object that is not a TestTree
Unset   == <<0>>               \* a cache attribute holding None
Overflow == <<-1>>             \* the recursion never returned (RecursionError)

VARIABLES parent, children, is_leaf, traversed, iterated_leaves,
          reversed_path_to_root, call, mutated, aborted, made, ops

vars == <<parent, children, is_leaf, traversed, iterated_leaves,
          reversed_path_to_root, call, mutated, aborted, made, ops>>

\* the attributes of every node, as one value
Heap ==
  [parent |-> parent, children |-> children, is_leaf |-> is_leaf,
   traversed |-> traversed, iterated_leaves |-> iterated_leaves,
   reversed_path_to_root |-> reversed_path_to_root]

\* ---- list helpers (Python list semantics) ----
In(x, s) == \E i \in 1..Len(s) : s[i] = x

\* list.index(x): the first position holding x (1-based), x is in s
ListIndex(s, x) == CHOOSE i \in 1..Len(s) : s[i] = x /\ \A j \in 1..(i-1) : s[j] # x

RemoveAt(s, i) == [j \in 1..(Len(s)-1) |-> IF j < i THEN s[j] ELSE s[j+1]]

InsertAt(s, i, x) ==
  [j \in 1..(Len(s)+1) |-> IF j < i THEN s[j] ELSE IF j = i THEN x ELSE s[j-1]]

ListRemoveHead(s, x) == Tail(s)

\* list.remove(x): drops the first occurrence of x, x is in s
ListRemove(s, x) == RemoveAt(s, ListIndex(s, x))

\* ---- parent chain ----
RECURSIVE Hop(_, _, _)
\* the k-th get_parent() from n (None once the root is passed)
Hop(par, n, k) == IF n = None \/ k = 0 THEN n ELSE Hop(par, par[n], k - 1)

\* following parent links from n never reaches a node without parent
Cyclic(par, n) == Hop(par, n, NumNodes) # None

RECURSIVE UpSetF(_, _, _)
UpSetF(par, n, d) ==
  IF n = None \/ d = 0 THEN {} ELSE {n} \cup UpSetF(par, par[n], d - 1)

\* n and every node reached from n by parent links
UpSet(par, n) == UpSetF(par, n, NumNodes)

ClearOnly(cache, S) == [x \in Nodes |-> IF x \in S THEN Unset ELSE cache[x]]

reset_iterators_self_only(h, n) ==
  [h |-> [h EXCEPT !.traversed = ClearOnly(@, {n}),
                   !.iterated_leaves = ClearOnly(@, {n}),
                   !.reversed_path_to_root = ClearOnly(@, {n})],
   res |-> "ok"]

\* Tree._reset_iterators: recurse to self.up first, then clear the three
\* caches; on a parent cycle the recursion never returns and nothing is cleared
reset_iterators(h, n) ==
  IF Cyclic(h.parent, n)
  THEN [h |-> h, res |-> "RecursionError"]
  ELSE [h |-> [h EXCEPT !.traversed = ClearOnly(@, UpSet(h.parent, n)),
                        !.iterated_leaves = ClearOnly(@, UpSet(h.parent, n)),
                        !.reversed_path_to_root = ClearOnly(@, UpSet(h.parent, n))],
        res |-> "ok"]

\* TestTree._check_child_to_be_added: isinstance(child, self.__class__)
check_child_to_be_added(self, child) == child \in Nodes

\* c is an element of some node's children list
Attached(h, c) == \E q \in Nodes : In(c, h.children[q])

ParentOf(h, c) == IF c \in Nodes THEN h.parent[c] ELSE None

\* ---- mutators, as functions from the heap to the heap and the outcome ----

add_child_late_check(h, self, child) ==
  IF ~check_child_to_be_added(self, child)
  THEN [h |-> [h EXCEPT !.children[self] = Append(@, child)], res |-> "TypeError"]
  ELSE LET h1 == [h EXCEPT !.parent[child] = self,
                           !.children[self] = Append(@, child)]
           r  == reset_iterators(h1, self)
       IN  IF r.res # "ok" THEN r
           ELSE [h |-> [r.h EXCEPT !.is_leaf[self] = FALSE], res |-> "ok"]

\* Tree.add_child
add_child(h, self, child) ==
  IF ~check_child_to_be_added(self, child)
  THEN [h |-> h, res |-> "TypeError"]
  ELSE LET h1 == [h EXCEPT !.parent[child] = self,
                           !.children[self] = Append(@, child)]
           r  == reset_iterators(h1, self)
       IN  IF r.res # "ok" THEN r
           ELSE [h |-> [r.h EXCEPT !.is_leaf[self] = FALSE], res |-> "ok"]

remove_late_check(h, self, child) ==
  IF child \notin Nodes
  THEN [h |-> h, res |-> "ChildNotFoundError"]
  ELSE IF ~In(child, h.children[self])
  THEN [h |-> [h EXCEPT !.parent[child] = None], res |-> "ChildNotFoundError"]
  ELSE reset_iterators([h EXCEPT !.parent[child] = None,
                                 !.children[self] = ListRemove(@, child)], self)

\* Tree.remove
remove(h, self, child) ==
  IF ~In(child, h.children[self])
  THEN [h |-> h, res |-> "ChildNotFoundError"]
  ELSE reset_iterators([h EXCEPT !.parent[child] = None,
                                 !.children[self] = ListRemove(@, child)], self)

RECURSIVE remove_each(_, _)
\* the loop of Tree.remove_children over the snapshot of the children
remove_each(h, snapshot) ==
  IF snapshot = <<>> THEN [h |-> h, res |-> "ok"]
  ELSE LET child == Head(snapshot)
           p     == h.parent[child]
       IN  IF p = None THEN remove_each(h, Tail(snapshot))
           ELSE LET r == remove(h, p, child)
                IN  IF r.res # "ok" THEN r ELSE remove_each(r.h, Tail(snapshot))

\* Tree.remove_children
remove_children(h, self) == remove_each(h, h.children[self])

\* the argument old of replace_child: a node, or one of two callables
PredTrue == "lambda ch: True"
PredLeaf == "lambda ch: ch.is_leaf"
OldArgs == {<<"node", n>> : n \in Nodes} \cup {<<"pred", k>> : k \in {PredTrue, PredLeaf}}
NoOld == <<"none", 0>>

Matches(h, old, ch) ==
  IF old[1] = "pred"
  THEN IF old[2] = PredTrue THEN TRUE ELSE h.is_leaf[ch]
  ELSE ch = old[2]

\* [ch for ch in self.get_children() if ...]
list_of_olds(h, self, old) ==
  LET Test(ch) == Matches(h, old, ch) IN SelectSeq(h.children[self], Test)

\* s[index] of a Python list: negative indices count from the end
IndexInRange(s, index) == -Len(s) <= index /\ index < Len(s)
PyItem(s, index) == IF index >= 0 THEN s[index + 1] ELSE s[Len(s) + index + 1]

replace_child_clamped_index(h, self, old, new, index) ==
  LET olds == list_of_olds(h, self, old) IN
  IF olds = <<>> THEN [h |-> h, res |-> "ValueError"]
  ELSE IF ~check_child_to_be_added(self, new) THEN [h |-> h, res |-> "TypeError"]
  ELSE LET at == IF IndexInRange(olds, index) THEN index ELSE -1
           old_index == ListIndex(h.children[self], PyItem(olds, at))
           old_child == h.children[self][old_index]
           h1 == [h EXCEPT !.children[self] =
                              InsertAt(ListRemove(@, old_child), old_index, new),
                           !.parent[old_child] = None]
           r  == reset_iterators(h1, self)
       IN  IF r.res # "ok" THEN r
           ELSE [h |-> [r.h EXCEPT !.parent[new] = self], res |-> "ok"]

\* Tree.replace_child
replace_child(h, self, old, new, index) ==
  LET olds == list_of_olds(h, self, old) IN
  IF olds = <<>> THEN [h |-> h, res |-> "ValueError"]
  ELSE IF ~check_child_to_be_added(self, new) THEN [h |-> h, res |-> "TypeError"]
  ELSE IF ~IndexInRange(olds, index) THEN [h |-> h, res |-> "IndexError"]
  ELSE LET old_index == ListIndex(h.children[self], PyItem(olds, index))
           old_child == h.children[self][old_index]
           h1 == [h EXCEPT !.children[self] =
                              InsertAt(ListRemove(@, old_child), old_index, new),
                           !.parent[old_child] = None]
           r  == reset_iterators(h1, self)
       IN  IF r.res # "ok" THEN r
           ELSE [h |-> [r.h EXCEPT !.parent[new] = self], res |-> "ok"]

\* ---- cached reads ----
RECURSIVE raw_traverse(_, _, _)
RECURSIVE TraverseEach(_, _, _)
\* Tree._raw_traverse: self, then each child's subtree in order; d is the
\* recursion depth left, used up only when the children links form a cycle
raw_traverse(kids, n, d) ==
  IF d = 0 THEN Overflow
  ELSE LET rest == TraverseEach(kids, kids[n], d - 1)
       IN  IF rest = Overflow THEN Overflow ELSE <<n>> \o rest

TraverseEach(kids, s, d) ==
  IF s = <<>> THEN <<>>
  ELSE LET a == raw_traverse(kids, Head(s), d)
       IN  IF a = Overflow THEN Overflow
           ELSE LET b == TraverseEach(kids, Tail(s), d)
                IN  IF b = Overflow THEN Overflow ELSE a \o b

\* Tree.traverse
traverse(h, n) ==
  IF h.traversed[n] # Unset
  THEN [h |-> h, res |-> "ok", ret |-> h.traversed[n]]
  ELSE LET t == raw_traverse(h.children, n, NumNodes)
       IN  IF t = Overflow
           THEN [h |-> h, res |-> "RecursionError", ret |-> <<>>]
           ELSE [h |-> [h EXCEPT !.traversed[n] = t], res |-> "ok", ret |-> t]

\* Tree.iterate_leaves
iterate_leaves(h, n) ==
  IF h.iterated_leaves[n] # Unset
  THEN [h |-> h, res |-> "ok", ret |-> h.iterated_leaves[n]]
  ELSE LET t == traverse(h, n)
           IsLeaf(x) == h.is_leaf[x]
       IN  IF t.res # "ok" THEN t
           ELSE [h |-> [t.h EXCEPT !.iterated_leaves[n] = SelectSeq(t.ret, IsLeaf)],
                 res |-> "ok", ret |-> SelectSeq(t.ret, IsLeaf)]

RECURSIVE path_to_root(_, _, _, _)
\* get_reversed_path_to_root through _raw_reversed_path_to_root: the cached
\* list when there is one, else self followed by the parent's path
path_to_root(cache, par, n, d) ==
  IF cache[n] # Unset THEN cache[n]
  ELSE IF d = 0 THEN Overflow
  ELSE IF par[n] = None THEN <<n>>
  ELSE LET r == path_to_root(cache, par, par[n], d - 1)
       IN  IF r = Overflow THEN Overflow ELSE <<n>> \o r

RECURSIVE Missed(_, _, _, _)
\* the nodes whose path is computed (and stored) on the way up from n
Missed(cache, par, n, d) ==
  IF n = None \/ d = 0 THEN {}
  ELSE IF cache[n] # Unset THEN {}
  ELSE {n} \cup Missed(cache, par, par[n], d - 1)

\* Tree.get_reversed_path_to_root
get_reversed_path_to_root(h, n) ==
  LET c == h.reversed_path_to_root
      p == path_to_root(c, h.parent, n, NumNodes)
  IN  IF p = Overflow
      THEN [h |-> h, res |-> "RecursionError", ret |-> <<>>]
      ELSE [h |-> [h EXCEPT !.reversed_path_to_root =
                     [x \in Nodes |->
                        IF x \in Missed(c, h.parent, n, NumNodes)
                        THEN path_to_root(c, h.parent, x, NumNodes) ELSE c[x]]],
            res |-> "ok", ret |-> p]

\* ---- queries ----
\* an Optional[int] result: <<k>> for the integer k, <<>> for None
IntVal(k) == <<k>>
NoInt == <<>>

RECURSIVE get_level(_, _, _)
\* Tree.get_level: 0 for a node without parent, else the parent's level + 1;
\* d is the recursion depth left, used up only on a parent cycle
get_level(par, n, d) ==
  IF par[n] = None THEN 0
  ELSE IF d = 0 THEN -1
  ELSE LET l == get_level(par, par[n], d - 1) IN IF l < 0 THEN -1 ELSE l + 1

\* Tree.get_root: the loop up the parent links (called on an acyclic chain)
get_root(par, n) == CHOOSE r \in UpSet(par, n) : par[r] = None

RECURSIVE DistanceLoop(_, _, _, _, _)
\* the while loop of Tree.get_distance, entered with parent and count; d is the
\* number of rounds left before the loop is known to go round a parent cycle
DistanceLoop(par, p, count, reference, d) ==
  IF p = reference THEN [res |-> "ok", val |-> IntVal(count)]
  ELSE IF d = 0 THEN [res |-> "NeverReturns", val |-> NoInt]
  ELSE LET q == par[p]
       IN  IF q = None THEN [res |-> "AttributeError", val |-> NoInt]
           ELSE IF par[q] = None /\ q # reference
           THEN [res |-> "ok", val |-> NoInt]
           ELSE DistanceLoop(par, q, count + 1, reference, d - 1)

get_distance_from_zero(h, self, reference) ==
  IF h.parent[self] = None THEN [res |-> "ok", val |-> IntVal(0)]
  ELSE IF reference = None /\ Cyclic(h.parent, self)
  THEN [res |-> "NeverReturns", val |-> NoInt]
  ELSE DistanceLoop(h.parent, h.parent[self], 0,
                    IF reference = None THEN get_root(h.parent, self) ELSE reference,
                    NumNodes)

\* Tree.get_distance; reference None is the default argument
get_distance(h, self, reference) ==
  IF h.parent[self] = None THEN [res |-> "ok", val |-> IntVal(0)]
  ELSE IF reference = None /\ Cyclic(h.parent, self)
  THEN [res |-> "NeverReturns", val |-> NoInt]
  ELSE DistanceLoop(h.parent, h.parent[self], 1,
                    IF reference = None THEN get_root(h.parent, self) ELSE reference,
                    NumNodes)

\* leaf.get_distance() of each leaf in turn, as max() asks for the keys
Distances(h, leaves) == [i \in 1..Len(leaves) |-> get_distance(h, leaves[i], None)]

\* the outcome of the first key call that does not return, "ok" when all do
FirstFailure(ds) ==
  IF \E i \in 1..Len(ds) : ds[i].res # "ok"
  THEN ds[CHOOSE i \in 1..Len(ds) :
            /\ ds[i].res # "ok"
            /\ \A j \in 1..(i-1) : ds[j].res = "ok"].res
  ELSE "ok"

\* max(leaves, key=lambda leaf: leaf.get_distance()): the first leaf of the
\* greatest distance (every call returned an integer)
MaxByDistance(leaves, ds) ==
  leaves[CHOOSE i \in 1..Len(leaves) :
           /\ \A j \in 1..Len(leaves) : ds[j].val[1] <= ds[i].val[1]
           /\ \A j \in 1..(i-1) : ds[j].val[1] < ds[i].val[1]]

\* Tree.get_farthest_leaf
get_farthest_leaf(h, self) ==
  LET it == iterate_leaves(h, self)
  IN  IF it.res # "ok" THEN [h |-> h, res |-> it.res, leaf |-> None]
      ELSE LET leaves == IF it.ret = <<>> THEN <<self>> ELSE it.ret
               ds == Distances(it.h, leaves)
               fail == FirstFailure(ds)
           IN  [h |-> it.h, res |-> fail,
                leaf |-> IF fail = "ok" THEN MaxByDistance(leaves, ds) ELSE None]

\* the rest of get_number_of_layers once get_farthest_leaf has returned f
LayersFrom(f, self) ==
  IF f.res # "ok" THEN [h |-> f.h, res |-> f.res, val |-> NoInt]
  ELSE LET dist == get_distance(f.h, f.leaf, self)
       IN  IF dist.res # "ok" THEN [h |-> f.h, res |-> dist.res, val |-> NoInt]
           ELSE IF dist.val = NoInt \/ dist.val = IntVal(0)
           THEN [h |-> f.h, res |-> "ok", val |-> IntVal(0)]
           ELSE [h |-> f.h, res |-> "ok", val |-> dist.val]

\* Tree.get_number_of_layers; the result of get_farthest_leaf is bound once
get_number_of_layers(h, self) ==
  CHOOSE r \in {LayersFrom(f, self) : f \in {get_farthest_leaf(h, self)}} : TRUE

\* ---- TreeRepresentation ----
DefaultSpace == 3
\* the glyphs of get_representation, in ASCII
last_hook     == "L"       \* U+2514
continue_hook == "+"       \* U+251C
no_hook       == "|"       \* U+2502
horizontal    == "-"       \* U+2500

Repeat(x, k) == [i \in 1..k |-> x]

\* Tree.is_last_child raises IndexError: the parent's children list is empty
LastChildFails(h, n) == h.parent[n] # None /\ h.children[h.parent[n]] = <<>>

\* Tree.is_last_child
is_last_child(h, n) ==
  \/ h.parent[n] = None
  \/ h.children[h.parent[n]][Len(h.children[h.parent[n]])] = n

RECURSIVE get_path(_, _, _, _)
\* get_path of get_representation over path[i..], the piece of each node put
\* in front of the pieces of the nodes before it
get_path(h, path, i, space) ==
  IF i > Len(path) THEN <<>>
  ELSE get_path(h, path, i + 1, space)
         \o (IF is_last_child(h, path[i])
             THEN Repeat(" ", space + 1)
             ELSE <<no_hook>> \o Repeat(" ", space))

get_vertical(h, node) == IF is_last_child(h, node) THEN last_hook ELSE continue_hook

get_horizontal(space) == Repeat(horizontal, space - 1) \o <<" ">>

RECURSIVE Lines(_, _, _)
\* the loop of get_representation over the nodes still to print
Lines(h, nodes, space) ==
  IF nodes = <<>> THEN [h |-> h, res |-> "ok", out |-> <<>>]
  ELSE LET node == Head(nodes)
           r == get_reversed_path_to_root(h, node)
       IN  IF r.res # "ok" THEN [h |-> r.h, res |-> r.res, out |-> <<>>]
           ELSE IF \/ \E i \in 2..Len(r.ret) : LastChildFails(r.h, r.ret[i])
                   \/ LastChildFails(r.h, node)
           THEN [h |-> r.h, res |-> "IndexError", out |-> <<>>]
           ELSE LET rest == Lines(r.h, Tail(nodes), space)
                    line == [prefix |-> get_path(r.h, r.ret, 2, space),
                             hook |-> get_vertical(r.h, node),
                             rule |-> get_horizontal(space),
                             label |-> node]
                IN  IF rest.res # "ok" THEN rest
                    ELSE [h |-> rest.h, res |-> "ok", out |-> <<line>> \o rest.out]

\* Tree.get_tree_representation / TreeRepresentation.get_representation
get_representation(h, tree, space) ==
  LET t == traverse(h, tree)
  IN  IF t.res # "ok" THEN [h |-> t.h, res |-> t.res, out |-> <<>>]
      ELSE Lines(t.h, t.ret, space)

\* ---- the state machine ----
NoCall ==
  [op |-> "init", self |-> None, arg |-> None, old |-> NoOld, index |-> 0,
   res |-> "ok", ret |-> <<>>, kids0 |-> <<>>, att0 |-> FALSE, par0 |-> None,
   after_add |-> FALSE, val |-> NoInt, space |-> 0, out |-> <<>>]

Init ==
  /\ parent = [n \in Nodes |-> None]
  /\ children = [n \in Nodes |-> <<>>]
  /\ is_leaf = [n \in Nodes |-> TRUE]
  /\ traversed = [n \in Nodes |-> Unset]
  /\ iterated_leaves = [n \in Nodes |-> Unset]
  /\ reversed_path_to_root = [n \in Nodes |-> Unset]
  /\ call = NoCall
  /\ mutated = None
  /\ aborted = FALSE
  /\ made = 0
  /\ ops = 0

\* the heap after the call
Store(h) ==
  /\ parent' = h.parent
  /\ children' = h.children
  /\ is_leaf' = h.is_leaf
  /\ traversed' = h.traversed
  /\ iterated_leaves' = h.iterated_leaves
  /\ reversed_path_to_root' = h.reversed_path_to_root

\* the receiver of the last mutation that returned normally
Mutated(r, self) ==
  mutated' = IF r.res = "ok" THEN self ELSE IF r.h = Heap THEN mutated ELSE None

Max(a, b) == IF a >= b THEN a ELSE b

\* A node is constructed (Tree.__init__) right before the first call that uses
\* it, and the nodes are numbered in the order of construction: a call takes
\* its nodes among those made so far and the next ones to make.  All nodes are
\* alike until first used, so this numbering leaves no behaviour out.
Construct(a, b, c) ==
  LET n(x) == IF x \in Nodes THEN x ELSE 0
  IN  /\ n(a) <= made + 1
      /\ n(b) <= Max(made, n(a)) + 1
      /\ n(c) <= Max(Max(made, n(a)), n(b)) + 1
      /\ made' = Max(Max(Max(made, n(a)), n(b)), n(c))

\* An error a method raises by a raise statement (TypeError, ValueError,
\* IndexError, ChildNotFoundError) is not caught and ends the run; the raising
\* call has assigned nothing by then, so a caller that caught it and went on
\* would meet no other heap.  The same holds for the AttributeError of
\* get_distance, and a call that never returns has no successor.  A
\* RecursionError strikes after assignments, and the runs that go on after it
\* are kept.
Running == ops < MaxOps /\ call.res \in {"ok", "RecursionError"}

\* some call so far was abandoned by a RecursionError
Aborted(r) == aborted' = (aborted \/ r.res = "RecursionError")

AddChild(self, child) ==
  /\ Running
  /\ Construct(self, child, None)
  /\ LET r == add_child(Heap, self, child)
     IN  /\ Store(r.h)
         /\ Mutated(r, self)
         /\ Aborted(r)
         /\ call' = [NoCall EXCEPT !.op = "add_child", !.self = self, !.arg = child,
                       !.res = r.res,
                       !.ret = IF r.res = "ok" THEN <<child>> ELSE <<>>,
                       !.kids0 = children[self], !.att0 = Attached(Heap, child),
                       !.par0 = ParentOf(Heap, child)]
  /\ ops' = ops + 1

Remove(self, child) ==
  /\ Running
  /\ Construct(self, child, None)
  /\ LET r == remove(Heap, self, child)
     IN  /\ Store(r.h)
         /\ Mutated(r, self)
         /\ Aborted(r)
         /\ call' = [NoCall EXCEPT !.op = "remove", !.self = self, !.arg = child,
                       !.res = r.res, !.kids0 = children[self],
                       !.att0 = Attached(Heap, child),
                       !.par0 = ParentOf(Heap, child),
                       !.after_add = /\ call.op = "add_child"
                                     /\ call.self = self /\ call.arg = child]
  /\ ops' = ops + 1

RemoveChildren(self) ==
  /\ Running
  /\ Construct(self, None, None)
  /\ LET r == remove_children(Heap, self)
     IN  /\ Store(r.h)
         /\ mutated' = IF r.h = Heap THEN mutated ELSE None
         /\ Aborted(r)
         /\ call' = [NoCall EXCEPT !.op = "remove_children", !.self = self,
                       !.res = r.res, !.kids0 = children[self]]
  /\ ops' = ops + 1

ReplaceChild(self, old, new, index) ==
  /\ Running
  /\ Construct(self, IF old[1] = "node" THEN old[2] ELSE None, new)
  /\ LET r == replace_child(Heap, self, old, new, index)
     IN  /\ Store(r.h)
         /\ Mutated(r, self)
         /\ Aborted(r)
         /\ call' = [NoCall EXCEPT !.op = "replace_child", !.self = self, !.arg = new,
                       !.old = old, !.index = index, !.res = r.res,
                       !.kids0 = children[self], !.att0 = Attached(Heap, new),
                       !.par0 = ParentOf(Heap, new)]
  /\ ops' = ops + 1

Read(op, r, self) ==
  /\ Construct(self, None, None)
  /\ Store(r.h)
  /\ call' = [NoCall EXCEPT !.op = op, !.self = self, !.res = r.res, !.ret = r.ret,
                !.kids0 = children[self]]
  /\ UNCHANGED mutated
  /\ Aborted(r)
  /\ ops' = ops + 1

Traverse(self) == Running /\ Read("traverse", traverse(Heap, self), self)

IterateLeaves(self) ==
  Running /\ Read("iterate_leaves", iterate_leaves(Heap, self), self)

GetReversedPathToRoot(self) ==
  Running
  /\ Read("get_reversed_path_to_root", get_reversed_path_to_root(Heap, self), self)

\* get_distance assigns nothing
GetDistance(self, reference) ==
  /\ Running
  /\ Construct(self, reference, None)
  /\ LET r == get_distance(Heap, self, reference)
     IN  call' = [NoCall EXCEPT !.op = "get_distance", !.self = self,
                    !.arg = reference, !.res = r.res, !.val = r.val,
                    !.kids0 = children[self]]
  /\ UNCHANGED <<parent, children, is_leaf, traversed, iterated_leaves,
                 reversed_path_to_root, mutated, aborted>>
  /\ ops' = ops + 1

GetNumberOfLayers(self) ==
  /\ Running
  /\ Construct(self, None, None)
  /\ LET r == get_number_of_layers(Heap, self)
     IN  /\ Store(r.h)
         /\ Aborted(r)
         /\ call' = [NoCall EXCEPT !.op = "get_number_of_layers", !.self = self,
                       !.res = r.res, !.val = r.val, !.kids0 = children[self]]
  /\ UNCHANGED mutated
  /\ ops' = ops + 1

GetTreeRepresentation(self, space) ==
  /\ Running
  /\ Construct(self, None, None)
  /\ LET r == get_representation(Heap, self, space)
     IN  /\ Store(r.h)
         /\ Aborted(r)
         /\ call' = [NoCall EXCEPT !.op = "get_tree_representation", !.self = self,
                       !.res = r.res, !.space = space, !.out = r.out,
                       !.kids0 = children[self]]
  /\ UNCHANGED mutated
  /\ ops' = ops + 1

Spaces == {1, DefaultSpace}

MaxIndex == 1
Indices == (-1)..MaxIndex
Args == Nodes \cup {Foreign}

Next ==
  \/ \E self \in Nodes, child \in Args : AddChild(self, child)
  \/ \E self \in Nodes, child \in Args : Remove(self, child)
  \/ \E self \in Nodes : RemoveChildren(self)
  \/ \E self \in Nodes, old \in OldArgs, new \in Args, index \in Indices :
        ReplaceChild(self, old, new, index)
  \/ \E self \in Nodes : Traverse(self)
  \/ \E self \in Nodes : IterateLeaves(self)
  \/ \E self \in Nodes : GetReversedPathToRoot(self)
  \/ \E self \in Nodes, reference \in Nodes \cup {None} : GetDistance(self, reference)
  \/ \E self \in Nodes : GetNumberOfLayers(self)
  \/ \E self \in Nodes, space \in Spaces : GetTreeRepresentation(self, space)

Spec == Init /\ [][Next]_vars

\* ---- reference definitions for the properties ----
RECURSIVE LinkPathF(_, _, _)
LinkPathF(par, n, d) ==
  IF n = None \/ d = 0 THEN <<>> ELSE <<n>> \o LinkPathF(par, par[n], d - 1)

\* [n, parent(n), parent(parent(n)), ..., root] by the current parent links
LinkPath(n) == LinkPathF(parent, n, NumNodes)

\* the pre-order of n's subtree by the current children lists
Subtree(n) == raw_traverse(children, n, NumNodes)

LeafFlag(x) == is_leaf[x]

\* C1: after a remove that returned normally (no call before it abandoned),
\* every node's is_leaf flag is True iff its children list is empty.
C1_IsLeafIffNoChildren ==
  (call.op = "remove" /\ call.res = "ok" /\ ~aborted)
    => \A n \in Nodes : is_leaf[n] = (children[n] = <<>>)

\* C2: get_reversed_path_to_root() returns [n, parent(n), ..., root] as given
\* by the current parent links, cached or not (checked on the runs in which no
\* call was abandoned).
C2_PathNeverStale ==
  (call.op = "get_reversed_path_to_root" /\ call.res = "ok" /\ ~aborted)
    => call.ret = LinkPath(call.self)

\* C3: after any sequence of completed calls, c.get_parent() is p iff c is an
\* element of p.get_children(), for all nodes p and c.
C3_LinksConsistent ==
  ~aborted => \A p \in Nodes, c \in Nodes : (parent[c] = p) <=> In(c, children[p])

\* C4: following parent links from any node reaches a node without parent.
C4_Acyclic == \A n \in Nodes : ~Cyclic(parent, n)

C6_AlreadyAttachedRejected ==
  (call.op = "add_child" /\ call.arg \in Nodes /\ call.att0 /\ ~aborted)
    => (call.res = "AlreadyAttached" /\ children[call.self] = call.kids0)

\* C7: when the hook is reached and rejects the candidate, add_child and
\* replace_child raise its error (TypeError) and no parent, children list or
\* is_leaf flag changes.
C7_RejectedLeavesTreeAsBefore ==
  [][ ( /\ call'.op \in {"add_child", "replace_child"}
        /\ ~check_child_to_be_added(call'.self, call'.arg)
        /\ call'.op = "replace_child"
             => list_of_olds(Heap, call'.self, call'.old) # <<>> )
      => ( /\ call'.res = "TypeError"
           /\ UNCHANGED <<parent, children, is_leaf>> ) ]_vars

\* C7 witness: replace_child reached the hook with a matching old child and a
\* candidate the hook rejects.
C7_Witness ==
  /\ call.op = "replace_child" /\ call.arg = Foreign /\ call.res = "TypeError"
  /\ call.kids0 # <<>>

\* C8: remove(c) with c not in the receiver's children raises
\* ChildNotFoundError and changes no parent, children list, flag or cache.
C8_RemoveAbsentChild ==
  [][ ( call'.op = "remove" /\ ~In(call'.arg, children[call'.self]) )
      => ( /\ call'.res = "ChildNotFoundError"
           /\ UNCHANGED <<parent, children, is_leaf, traversed, iterated_leaves,
                          reversed_path_to_root>> ) ]_vars

\* C8 witness: remove was called with a grandchild of the receiver.
C8_Witness ==
  /\ call.op = "remove" /\ call.res = "ChildNotFoundError"
  /\ call.arg \in Nodes /\ parent[call.arg] \in Nodes
  /\ parent[parent[call.arg]] = call.self

\* C9: p.add_child(c) of a detached node c followed by p.remove(c) leaves
\* p.get_children() as before the add_child and c.get_parent() None.
C9_AddRemoveRoundTrip ==
  [][ ( /\ call.op = "add_child" /\ call.arg \in Nodes
        /\ ~call.att0 /\ call.par0 = None
        /\ call'.op = "remove" /\ call'.self = call.self /\ call'.arg = call.arg )
      => ( /\ children'[call.self] = call.kids0
           /\ parent'[call.arg] = None ) ]_vars

\* C9 witness: the remove of the round trip has run on a parent that keeps
\* another child.
C9_Witness ==
  /\ call.op = "remove" /\ call.after_add /\ call.res = "ok"
  /\ children[call.self] # <<>>
  /\ parent[call.arg] = None /\ ~Attached(Heap, call.arg)

RECURSIVE MatchPosF(_, _, _, _, _)
\* the position in s of the k-th element (k from 0) that matches old
MatchPosF(h, s, old, k, at) ==
  IF Matches(h, old, Head(s))
  THEN IF k = 0 THEN at ELSE MatchPosF(h, Tail(s), old, k - 1, at + 1)
  ELSE MatchPosF(h, Tail(s), old, k, at + 1)

\* C10: on a successful replace_child(old, new, index) whose index-th matching
\* child m (another node than new) is at position i, new is afterwards at
\* position i, every other position and the length are as before, m has no
\* parent and new's parent is the receiver (checked on the runs in which no
\* call was abandoned).
C10_ReplaceAtMatchedPosition ==
  [][ ( /\ call'.op = "replace_child" /\ call'.res = "ok"
        /\ call'.index >= 0 /\ ~aborted' )
      => LET p == call'.self
             i == MatchPosF(Heap, children[p], call'.old, call'.index, 1)
             m == children[p][i]
         IN  m # call'.arg =>
               /\ Len(children'[p]) = Len(children[p])
               /\ children'[p][i] = call'.arg
               /\ \A j \in 1..Len(children[p]) :
                    j # i => children'[p][j] = children[p][j]
               /\ parent'[m] = None
               /\ parent'[call'.arg] = p ]_vars

\* how often x occurs in the list s
Count(s, x) == Cardinality({i \in 1..Len(s) : s[i] = x})

\* C11: every node that has a parent occurs exactly once in that parent's
\* children list (checked on the runs in which no call was abandoned).
C11_ChildListedOnce ==
  ~aborted =>
    \A n \in Nodes : parent[n] # None => Count(children[parent[n]], n) = 1

RECURSIVE ReachF(_, _, _)
ReachF(kids, S, d) ==
  IF d = 0 THEN S
  ELSE ReachF(kids, S \cup {x \in Nodes : \E y \in S : In(x, kids[y])}, d - 1)

\* the nodes below n by the children lists
Descendants(kids, n) ==
  ReachF(kids, {x \in Nodes : In(x, kids[n])}, NumNodes)

\* C15: after a successful p.remove(c), c has no parent, every node below c
\* keeps its parent and its children list and has c as its root, c's subtree
\* reads in pre-order as before, and no node besides c and the nodes on p's
\* parent chain has its parent or children changed (checked on the runs in
\* which no call was abandoned).
C15_RemovedSubtreeUntouched ==
  [][ ( call'.op = "remove" /\ call'.res = "ok" /\ ~aborted' )
      => LET p == call'.self
             c == call'.arg
         IN  /\ parent'[c] = None
             /\ \A d \in Descendants(children, c) :
                  /\ parent'[d] = parent[d]
                  /\ children'[d] = children[d]
                  /\ ~Cyclic(parent', d)
                  /\ c \in UpSet(parent', d)
             /\ raw_traverse(children', c, NumNodes)
                  = raw_traverse(children, c, NumNodes)
             /\ \A x \in Nodes \ (UpSet(parent, p) \cup {c}) :
                  parent'[x] = parent[x] /\ children'[x] = children[x] ]_vars

RECURSIVE RemoveInTurn(_, _, _)
\* p.remove(c) for each c of the list cs, in order
RemoveInTurn(h, p, cs) ==
  IF cs = <<>> THEN [h |-> h, res |-> "ok"]
  ELSE LET r == remove(h, p, Head(cs))
       IN  IF r.res # "ok" THEN r ELSE RemoveInTurn(r.h, p, Tail(cs))

\* C16: after p.remove_children() returns, p has no children, every node that
\* was among them has no parent, no other node's children list has changed and
\* the heap is the one that p.remove(c) for each c of p's former children, in
\* order, gives (checked on the runs in which no call was abandoned).
C16_RemoveChildrenIsRepeatedRemove ==
  [][ ( call'.op = "remove_children" /\ call'.res = "ok" /\ ~aborted' )
      => LET p == call'.self
         IN  /\ children'[p] = <<>>
             /\ \A i \in 1..Len(children[p]) : parent'[children[p][i]] = None
             /\ \A q \in Nodes \ {p} : children'[q] = children[q]
             /\ Heap' = RemoveInTurn(Heap, p, children[p]).h ]_vars

\* C17: replace_child fails when no child matches old (ValueError) and when
\* index is beyond the matching children (IndexError, or the hook's TypeError
\* for a rejected candidate, raised first), and then no parent, children list
\* or is_leaf flag has changed.
C17_ReplaceFailsUnchanged ==
  [][ ( /\ call'.op = "replace_child"
        /\ LET olds == list_of_olds(Heap, call'.self, call'.old)
           IN  olds = <<>> \/ call'.index >= Len(olds) )
      => LET olds == list_of_olds(Heap, call'.self, call'.old)
         IN  /\ olds = <<>> => call'.res = "ValueError"
             /\ (olds # <<>> /\ check_child_to_be_added(call'.self, call'.arg))
                  => call'.res = "IndexError"
             /\ call'.res \in {"ValueError", "IndexError", "TypeError"}
             /\ UNCHANGED <<parent, children, is_leaf>> ]_vars

\* C17 witness: replace_child was given an index beyond the children that
\* match old, of which there is at least one.
C17_Witness ==
  /\ call.op = "replace_child" /\ call.res = "IndexError"
  /\ call.index > 0 /\ call.kids0 # <<>> /\ children[call.self] = call.kids0

NoChildren(x) == children[x] = <<>>

\* C19: iterate_leaves() yields the nodes of the receiver's subtree that have
\* no children, in pre-order, and is never empty (checked on the runs in which
\* no call was abandoned).
C19_LeavesAreChildless ==
  (call.op = "iterate_leaves" /\ call.res = "ok" /\ ~aborted)
    => /\ Subtree(call.self) # Overflow
       /\ call.ret = SelectSeq(Subtree(call.self), NoChildren)
       /\ call.ret # <<>>

\* C20: a node whose children list is not empty reports is_leaf False.
C20_ParentIsNotLeaf ==
  \A n \in Nodes : children[n] # <<>> => ~is_leaf[n]

\* the nodes form trees: parent links and children lists agree, no node is
\* listed twice and every parent chain ends
WellFormed ==
  /\ \A p \in Nodes, c \in Nodes : (parent[c] = p) <=> In(c, children[p])
  /\ \A p \in Nodes, c \in Nodes : Count(children[p], c) <= 1
  /\ \A n \in Nodes : ~Cyclic(parent, n)

Level(n) == get_level(parent, n, NumNodes)

\* the strict ancestors of n by the parent links
Ancestors(n) == UpSet(parent, n) \ {n}

\* C12: n.get_distance(x) for a node x that is neither n nor an ancestor of n
\* returns None and raises nothing (checked for the nodes n that have a parent,
\* on the runs in which no call was abandoned).
C12_DistanceToNonAncestor ==
  ( /\ call.op = "get_distance" /\ call.arg \in Nodes /\ ~aborted /\ WellFormed
    /\ parent[call.self] # None
    /\ call.arg \notin UpSet(parent, call.self) )
    => (call.res = "ok" /\ call.val = NoInt)

RECURSIVE HeightF(_, _, _)
\* the parent-hops from the deepest node of n's subtree up to n
HeightF(kids, n, d) ==
  IF kids[n] = <<>> \/ d = 0 THEN 0
  ELSE LET hs == {HeightF(kids, kids[n][i], d - 1) : i \in 1..Len(kids[n])}
       IN  1 + (CHOOSE x \in hs : \A y \in hs : y <= x)

Height(n) == HeightF(children, n, NumNodes)

\* C13: in a well-formed tree n.get_number_of_layers() returns the
\* parent-hops from the deepest leaf of n's subtree up to n, 0 without raising
\* for a node without children (checked on the runs in which no call was
\* abandoned).
C13_LayersIsHeight ==
  (call.op = "get_number_of_layers" /\ ~aborted /\ WellFormed)
    => (call.res = "ok" /\ call.val = IntVal(Height(call.self)))

RECURSIVE ExpectedPrefix(_, _)
\* the columns of the ancestors anc (nearest first), the root's column first:
\* a bar for an ancestor that is not a last child, blanks for one that is
ExpectedPrefix(anc, w) ==
  IF anc = <<>> THEN <<>>
  ELSE ExpectedPrefix(Tail(anc), w)
         \o (IF is_last_child(Heap, Head(anc))
             THEN Repeat(" ", w + 1)
             ELSE <<no_hook>> \o Repeat(" ", w))

\* C14: rendering a root with width w gives one line per node of its subtree
\* in pre-order, and the line of node m has a prefix of (w+1) * get_level(m)
\* characters, with a bar at the column of each ancestor that is not a last
\* child (checked in well-formed states, on the runs in which no call was
\* abandoned).
C14_RenderIndentsByLevel ==
  ( /\ call.op = "get_tree_representation" /\ ~aborted /\ WellFormed
    /\ parent[call.self] = None )
    => /\ call.res = "ok"
       /\ Len(call.out) = Len(Subtree(call.self))
       /\ \A k \in 1..Len(call.out) :
            LET m == Subtree(call.self)[k]
            IN  /\ call.out[k].label = m
                /\ Len(call.out[k].prefix) = (call.space + 1) * Level(m)
                /\ call.out[k].prefix = ExpectedPrefix(Tail(LinkPath(m)), call.space)

\* C18: where the parent chain of n ends, n.get_distance(a) for a strict
\* ancestor a is get_level(n) - get_level(a), and n.get_distance() is
\* get_level(n).
C18_DistanceIsLevelDifference ==
  (call.op = "get_distance" /\ ~Cyclic(parent, call.self))
    => /\ call.arg = None
            => (call.res = "ok" /\ call.val = IntVal(Level(call.self)))
       /\ call.arg \in Ancestors(call.self)
            => /\ call.res = "ok"
               /\ call.val = IntVal(Level(call.self) - Level(call.arg))

\* C18 witness: the distance to the grandparent was asked for.
C18_Witness ==
  /\ call.op = "get_distance" /\ call.res = "ok" /\ call.arg \in Nodes
  /\ parent[call.self] \in Nodes
  /\ parent[parent[call.self]] = call.arg
  /\ call.val = IntVal(2)

====
